---------------------------- MODULE Spec2Model ----------------------------
(***************************************************************************)
(* Model of src/contentScripts/views/App.vue (video-control-vue): the      *)
(* video discovery, the mutation watcher, the selection state, the picker  *)
(* and the key router, over a small host DOM.                              *)
(***************************************************************************)
EXTENDS Integers, Sequences, FiniteSets, TLC

(***************************************************************************)
(* The host DOM.  Element nodes are videos, div wrappers, iframes and the  *)
(* outline div that selectVideo creates; "txt" is a text node.  kids[c] is *)
(* the child list of a container: the top document's body, a wrapper, or   *)
(* (for an iframe) the body of the document loaded in it.                  *)
(***************************************************************************)
Body == "body"
Outline == "outline"
Videos == {"v1", "v2", "v3"}
\* "plain" has no class, "player" has class "Video-Box"
Wrappers == {"plain", "player"}
\* "fa" holds a same-origin document, "fx" a cross-origin one
Frames == {"fa", "fx"}
Containers == {Body} \cup Wrappers \cup Frames
\* a text node: a node that is not an element
Texts == {"txt"}
Movable == Videos \cup Wrappers \cup Frames \cup Texts
\* the element nodes
Nodes == (Movable \ Texts) \cup {Outline}
\* values of video.src: empty, or a resolved URL
Srcs == {"", "m.mp4"}
Absent == "undefined"

\* the two setTimeout delays of listenVideoUpdate
SettleDelay == 1000
Delays == {0, SettleDelay}
\* at most MaxTimers pending timers of each delay
MaxTimers == 1

VARIABLES
    kids,               \* [Containers -> Seq(Nodes)]: the DOM trees
    src,                \* [Videos -> Srcs]: each video's src
    loaded,             \* init() has run (the window load event fired)
    observing,          \* the MutationObserver is connected
    timers,             \* [Delays -> Nat]: pending setTimeout(onVideoUpdate, d)
    videoElements,      \* ref<HTMLVideoElement[]>
    videoSelectedIndex, \* ref(0)
    hovered,            \* the picker entry under the mouse, or -1
    winCapture,         \* the window's capture-phase key listeners, in
                        \* registration order
    fault,              \* a handler threw an uncaught exception
    lastPass,           \* the discovery pass the last step made, if it made
                        \* one: lengths and indices before and after it
    lastKey,            \* the key event in dispatch and what was done with
                        \* it; NoKey between key events
    lastEvent,          \* "load" or "hashchange" when the last step was the
                        \* handler of that window event, else "other"
    repeated,           \* the last two steps were both discovery passes
    everListed,         \* videoElements has been non-empty after some pass
    unrun               \* setTimeout(onVideoUpdate) calls and hashchange
                        \* events so far, minus the discovery passes run

vars == <<kids, src, loaded, observing, timers, videoElements,
          videoSelectedIndex, hovered, winCapture, fault, lastPass, lastKey,
          lastEvent, repeated, everListed, unrun>>

-----------------------------------------------------------------------------
(* Strings the code inspects, as character sequences. *)

UpperCh == <<"A","B","C","D","E","F","G","H","I","J","K","L","M",
             "N","O","P","Q","R","S","T","U","V","W","X","Y","Z">>
LowerCh == <<"a","b","c","d","e","f","g","h","i","j","k","l","m",
             "n","o","p","q","r","s","t","u","v","w","x","y","z">>

Range(s) == {s[i] : i \in 1..Len(s)}

UpperToLower ==
    [c \in Range(UpperCh) |-> LowerCh[CHOOSE i \in 1..26 : UpperCh[i] = c]]

toLowerCaseCh(c) == IF c \in DOMAIN UpperToLower THEN UpperToLower[c] ELSE c

toLowerCase(s) == [i \in 1..Len(s) |-> toLowerCaseCh(s[i])]

\* /video/i.test(s)
RegexVideoI(s) ==
    \E i \in 1..(Len(s) - 4) :
        toLowerCase(SubSeq(s, i, i + 4)) = <<"v","i","d","e","o">>

OutlineClass ==
    <<"v","i","d","e","o","-","c","o","n","t","r","o","l","l","e","r","-",
      "v","i","d","e","o","-","o","u","t","l","i","n","e">>

className(n) ==
    CASE n = Outline -> OutlineClass
      [] n = "player" -> <<"V","i","d","e","o","-","B","o","x">>
      [] OTHER -> <<>>

nodeName(n) ==
    CASE n \in Videos -> "VIDEO"
      [] n \in Frames -> "IFRAME"
      [] n \in Texts -> "#text"
      [] OTHER -> "DIV"

-----------------------------------------------------------------------------
(* Tree queries of the DOM. *)

RECURSIVE ElementsUnder(_, _)
\* the element descendants of the nodes of sequence s, in document order;
\* an iframe's document is another document and is not entered
ElementsUnder(k, s) ==
    IF s = <<>> THEN <<>>
    ELSE LET n == Head(s)
             below == IF n \in Wrappers THEN ElementsUnder(k, k[n]) ELSE <<>>
         IN  IF n \in Texts THEN ElementsUnder(k, Tail(s))
             ELSE <<n>> \o below \o ElementsUnder(k, Tail(s))

\* document.querySelectorAll(sel) of the document whose body is c
IsVideo(n) == n \in Videos
IsFrame(n) == n \in Frames
querySelectorAllVideo(k, c) == SelectSeq(ElementsUnder(k, k[c]), IsVideo)
\* window.frames of the document whose body is c: its iframes in document order
framesOf(k, c) == SelectSeq(ElementsUnder(k, k[c]), IsFrame)

\* node.querySelector('iframe') is not null
HasIframeBelow(k, n) ==
    /\ n \in Wrappers
    /\ framesOf(k, n) # <<>>

\* the container whose child list holds n, or Absent
parentOf(k, n) ==
    IF \E c \in Containers : n \in Range(k[c])
    THEN CHOOSE c \in Containers : n \in Range(k[c])
    ELSE Absent

RECURSIVE InTopDocument(_, _)
\* n is connected to the top document (not through an iframe)
InTopDocument(k, n) ==
    \/ n = Body
    \/ /\ n # Absent
       /\ parentOf(k, n) \in {Body} \cup Wrappers
       /\ InTopDocument(k, parentOf(k, n))

RECURSIVE Connected(_, _)
\* n is in the top document or in a document of the frame tree below it
Connected(k, n) ==
    \/ n = Body
    \/ /\ n # Absent
       /\ parentOf(k, n) # Absent
       /\ Connected(k, parentOf(k, n))

RECURSIVE SubtreeNodes(_, _)
\* n and everything below it, documents of iframes included
SubtreeNodes(k, n) ==
    IF n \in Containers
    THEN {n} \cup UNION {SubtreeNodes(k, m) : m \in Range(k[n]) \ {Outline}}
    ELSE {n}

Remove(s, n) == SelectSeq(s, LAMBDA x : x # n)


-----------------------------------------------------------------------------
(* Video discovery. *)

\* reading frame.document throws a SecurityError for a cross-origin frame
DocumentReadable(frame) == frame # "fx"

\* .filter(video => video.src)
HasSrc(s, v) == s[v] # ""

RECURSIVE getAllValidVideoElements(_, _, _)
RECURSIVE FramesVideoElements(_, _, _)
\* a traversal that appends the document's own videos after its frames' videos
getAllValidVideoElements_FramesFirst(k, s, frame) ==
    LET own == IF DocumentReadable(frame)
               THEN SelectSeq(querySelectorAllVideo(k, frame),
                              LAMBDA v : HasSrc(s, v))
               ELSE <<>>
    IN  FramesVideoElements(k, s, framesOf(k, frame)) \o own

\* getAllValidVideoElements(frame), frame given as the body of its document
getAllValidVideoElements(k, s, frame) ==
    LET own == IF DocumentReadable(frame)
               THEN SelectSeq(querySelectorAllVideo(k, frame),
                              LAMBDA v : HasSrc(s, v))
               ELSE <<>>
    IN  own \o FramesVideoElements(k, s, framesOf(k, frame))

\* Array.from(frame.frames).forEach(f => elements.push(...recursion(f)))
FramesVideoElements(k, s, fs) ==
    IF fs = <<>> THEN <<>>
    ELSE getAllValidVideoElements(k, s, Head(fs))
           \o FramesVideoElements(k, s, Tail(fs))

\* Array.from(frame.frames) reads frame.frames[Symbol.iterator]: of a
\* cross-origin window that read throws a SecurityError (only window, self,
\* location, close, closed, focus, blur, frames, length, top, opener, parent,
\* postMessage and the indexed frames can be read across origins).  The call
\* is outside the try block and is made when frame.frames.length is not 0.
ArrayFromFramesThrows(k, frame) ==
    /\ ~DocumentReadable(frame)
    /\ framesOf(k, frame) # <<>>

RECURSIVE getAllValidVideoElementsThrows(_, _)
\* getAllValidVideoElements(frame) ends with an exception, its own or one of
\* a nested call: nothing on the way up catches it
getAllValidVideoElementsThrows(k, frame) ==
    \/ ArrayFromFramesThrows(k, frame)
    \/ \E f \in Range(framesOf(k, frame)) :
          getAllValidVideoElementsThrows(k, f)

NoKey == [type |-> "none"]
NoPass == [prevLen |-> -1, prevIndex |-> -1, newLen |-> -1, newIndex |-> -1]

\* a lookup that clamps the index into the list instead of yielding undefined
videoAt_Clamped(list, index) ==
    IF list = <<>> THEN Absent
    ELSE IF index + 1 \in 1..Len(list) THEN list[index + 1]
    ELSE list[Len(list)]

\* computed(() => videoElements.value[videoSelectedIndex.value])
videoAt(list, index) ==
    IF index + 1 \in 1..Len(list) THEN list[index + 1] ELSE Absent

video == videoAt(videoElements, videoSelectedIndex)

\* the picker's <li v-for="index in videoElements.length">: an entry that is
\* no longer rendered is removed, and with it the mouse's hover of it
RenderedHover(list, h) == IF h < Len(list) THEN h ELSE -1

\* a callback that resets the index only when the list was empty before
onVideoUpdate_PrevEmptyOnly(list) ==
    /\ videoElements' = list
    /\ videoSelectedIndex' =
         IF Len(list) # 0 /\ Len(videoElements) = 0
         THEN 0
         ELSE videoSelectedIndex
    /\ hovered' = RenderedHover(list, hovered)
    /\ lastPass' = [prevLen |-> Len(videoElements),
                    prevIndex |-> videoSelectedIndex,
                    newLen |-> Len(videoElements'),
                    newIndex |-> videoSelectedIndex']

\* a callback that never resets the index
onVideoUpdate_NoReset(list) ==
    /\ videoElements' = list
    /\ videoSelectedIndex' = videoSelectedIndex
    /\ hovered' = RenderedHover(list, hovered)
    /\ lastPass' = [prevLen |-> Len(videoElements),
                    prevIndex |-> videoSelectedIndex,
                    newLen |-> Len(videoElements'),
                    newIndex |-> videoSelectedIndex']

\* a callback that resets the index whenever the new list is not empty
onVideoUpdate_AlwaysReset(list) ==
    /\ videoElements' = list
    /\ videoSelectedIndex' = IF Len(list) # 0 THEN 0 ELSE videoSelectedIndex
    /\ hovered' = RenderedHover(list, hovered)
    /\ lastPass' = [prevLen |-> Len(videoElements),
                    prevIndex |-> videoSelectedIndex,
                    newLen |-> Len(videoElements'),
                    newIndex |-> videoSelectedIndex']

\* a callback that patches the list: it keeps the entries it has and appends
\* the videos found that are not listed yet
onVideoUpdate_Merge(list) ==
    /\ videoElements' =
         videoElements
           \o SelectSeq(list, LAMBDA v : v \notin Range(videoElements))
    /\ videoSelectedIndex' =
         IF Len(videoElements') # 0
              /\ videoAt(videoElements', videoSelectedIndex) = Absent
         THEN 0
         ELSE videoSelectedIndex
    /\ hovered' = RenderedHover(videoElements', hovered)
    /\ lastPass' = [prevLen |-> Len(videoElements),
                    prevIndex |-> videoSelectedIndex,
                    newLen |-> Len(videoElements'),
                    newIndex |-> videoSelectedIndex']

\* a callback that pushes what it found onto the list it has
onVideoUpdate_Append(list) ==
    /\ videoElements' = videoElements \o list
    /\ videoSelectedIndex' =
         IF Len(videoElements') # 0
              /\ videoAt(videoElements', videoSelectedIndex) = Absent
         THEN 0
         ELSE videoSelectedIndex
    /\ hovered' = RenderedHover(videoElements', hovered)
    /\ lastPass' = [prevLen |-> Len(videoElements),
                    prevIndex |-> videoSelectedIndex,
                    newLen |-> Len(videoElements'),
                    newIndex |-> videoSelectedIndex']

\* the callback init() hands to listenVideoUpdate
onVideoUpdate(list) ==
    /\ videoElements' = list
    /\ videoSelectedIndex' =
         IF Len(list) # 0 /\ videoAt(list, videoSelectedIndex) = Absent
         THEN 0
         ELSE videoSelectedIndex
    /\ hovered' = RenderedHover(list, hovered)
    /\ lastPass' = [prevLen |-> Len(videoElements),
                    prevIndex |-> videoSelectedIndex,
                    newLen |-> Len(videoElements'),
                    newIndex |-> videoSelectedIndex']

-----------------------------------------------------------------------------
(* The mutation watcher. *)

\* Node.ELEMENT_NODE (1) for an element, Node.TEXT_NODE (3) for a text node
nodeType(n) == IF n \in Nodes THEN 1 ELSE 3

\* /video/i.test(node.className), for each node
ClassHasVideo == [n \in Nodes |-> RegexVideoI(className(n))]

mayContainsVideoElement(k, n) ==
    IF nodeType(n) # 1 THEN FALSE
    ELSE IF nodeName(n) = "VIDEO" THEN TRUE
    ELSE IF ClassHasVideo[n] THEN TRUE
    ELSE IF HasIframeBelow(k, n) THEN TRUE
    ELSE FALSE

\* removals that wait for the settle delay as additions do
DelayFor_Settle(added) == SettleDelay

\* the delay of the setTimeout an observed mutation of node n leads to
DelayFor(added) == IF added THEN SettleDelay ELSE 0

\* a callback that debounces: it clears the pending timer of the delay before
\* it sets the new one
ObserverCallback_Debounce(k, p, n, added) ==
    IF /\ observing
       /\ p \notin Frames /\ InTopDocument(kids, p)
       /\ mayContainsVideoElement(k, n)
    THEN /\ timers' = [timers EXCEPT ![DelayFor(added)] = 1]
         /\ unrun' = unrun + 1
    ELSE timers' = timers /\ unrun' = unrun

\* the MutationObserver callback for one record of one node: added or removed
\* under parent p, with the tree k at the time the callback runs
ObserverCallback(k, p, n, added) ==
    IF /\ observing
       /\ p \notin Frames /\ InTopDocument(kids, p)
       /\ mayContainsVideoElement(k, n)
    THEN /\ timers[DelayFor(added)] < MaxTimers
         /\ timers' = [timers EXCEPT ![DelayFor(added)] = @ + 1]
         /\ unrun' = unrun + 1
    ELSE timers' = timers /\ unrun' = unrun

-----------------------------------------------------------------------------
(* The host page changes its DOM.  The page has one thread: no other handler *)
(* or script runs while a key event is in dispatch (lastKey = NoKey).        *)

\* a step that is neither a discovery pass nor the load handler
NoPassMade ==
    /\ lastPass' = NoPass
    /\ lastEvent' = "other"
    /\ repeated' = FALSE
    /\ everListed' = everListed

\* a step that made a discovery pass, in the handler of window event ev
PassMade(ev) ==
    /\ lastEvent' = ev
    /\ repeated' = (lastPass # NoPass)
    /\ everListed' = (everListed \/ videoElements' # <<>>)

\* the callback init() gives to listenVideoUpdate, run in the handler of
\* window event ev: when getAllValidVideoElements() throws, the callback ends
\* before the assignment to videoElements.value
runOnVideoUpdate(ev) ==
    IF getAllValidVideoElementsThrows(kids, Body)
    THEN /\ fault' = TRUE
         /\ lastPass' = NoPass
         /\ lastEvent' = ev
         /\ repeated' = FALSE
         /\ UNCHANGED <<videoElements, videoSelectedIndex, hovered,
                        everListed>>
    ELSE /\ onVideoUpdate(getAllValidVideoElements(kids, src, Body))
         /\ PassMade(ev)
         /\ UNCHANGED fault

Insert(n, c) ==
    /\ lastKey = NoKey
    /\ parentOf(kids, n) = Absent
    /\ c \notin SubtreeNodes(kids, n)
    /\ kids' = [kids EXCEPT ![c] = Append(@, n)]
    /\ ObserverCallback(kids', c, n, TRUE)
    /\ NoPassMade
    /\ UNCHANGED <<src, loaded, observing, videoElements, videoSelectedIndex,
                   hovered, winCapture, fault, lastKey>>

Detach(n) ==
    /\ lastKey = NoKey
    /\ parentOf(kids, n) # Absent
    /\ kids' = [kids EXCEPT ![parentOf(kids, n)] = Remove(@, n)]
    /\ ObserverCallback(kids', parentOf(kids, n), n, FALSE)
    /\ NoPassMade
    /\ UNCHANGED <<src, loaded, observing, videoElements, videoSelectedIndex,
                   hovered, winCapture, fault, lastKey>>

SetSrc(v, s) ==
    /\ lastKey = NoKey
    /\ src[v] # s
    /\ src' = [src EXCEPT ![v] = s]
    /\ NoPassMade
    /\ UNCHANGED <<kids, loaded, observing, timers, unrun, videoElements,
                   videoSelectedIndex, hovered, winCapture, fault, lastKey>>

-----------------------------------------------------------------------------
(* init() and the discovery passes. *)

\* window 'load': init() -> listenVideoUpdate (observe, setTimeout(onVideoUpdate),
\* hashchange listener), then listenKeyEvent for both directions
\* window 'beforeunload': observer && observer.disconnect(); the pending
\* timers are left alone
BeforeUnload ==
    /\ lastKey = NoKey
    /\ observing' = FALSE
    /\ NoPassMade
    /\ UNCHANGED <<kids, src, loaded, timers, unrun, videoElements,
                   videoSelectedIndex, hovered, winCapture, fault, lastKey>>

Load ==
    /\ lastKey = NoKey
    /\ ~loaded
    /\ loaded' = TRUE
    /\ observing' = TRUE
    /\ timers' = [timers EXCEPT ![0] = @ + 1]
    /\ winCapture' = Append(winCapture, "router")
    /\ unrun' = unrun + 1
    /\ lastPass' = NoPass
    /\ lastEvent' = "load"
    /\ repeated' = FALSE
    /\ everListed' = everListed
    /\ UNCHANGED <<kids, src, videoElements, videoSelectedIndex, hovered,
                   fault, lastKey>>

\* a pending setTimeout(onVideoUpdate, d) fires
TimerFires(d) ==
    /\ lastKey = NoKey
    /\ timers[d] > 0
    /\ timers' = [timers EXCEPT ![d] = @ - 1]
    /\ runOnVideoUpdate("other")
    /\ unrun' = unrun - 1
    /\ UNCHANGED <<kids, src, loaded, observing, winCapture, lastKey>>

\* window 'hashchange' -> onVideoUpdate
HashChange ==
    /\ lastKey = NoKey
    /\ loaded
    /\ runOnVideoUpdate("hashchange")
    /\ unrun' = unrun + 1 - 1
    /\ UNCHANGED <<kids, src, loaded, observing, timers, winCapture, lastKey>>

-----------------------------------------------------------------------------
(* The picker. *)

\* the first child of p that is an element
firstElementChild(k, p) ==
    IF p = Absent THEN Absent
    ELSE LET elements == SelectSeq(k[p], LAMBDA n : n \notin Texts)
         IN  IF elements = <<>> THEN Absent ELSE Head(elements)

\* sequence s without its first occurrence of n
RemoveFirst(s, n) ==
    LET i == CHOOSE j \in 1..Len(s) :
                 s[j] = n /\ \A h \in 1..(j - 1) : s[h] # n
    IN  SubSeq(s, 1, i - 1) \o SubSeq(s, i + 1, Len(s))

\* the radio input v-model="videoSelectedIndex" :value="index - 1"
PickerSelect(i) ==
    /\ lastKey = NoKey
    /\ i \in 0..(Len(videoElements) - 1)
    /\ videoSelectedIndex' = i
    /\ NoPassMade
    /\ UNCHANGED <<kids, src, loaded, observing, timers, unrun,
                   videoElements,
                   hovered, winCapture, fault, lastKey>>

\* a selectVideo that prepends the outline div without looking for one
selectVideoDom_NoCheck(k, v) ==
    LET p == parentOf(k, v)
    IN  IF p = Absent THEN k ELSE [k EXCEPT ![p] = <<Outline>> \o @]

\* the DOM selectVideo leaves for video v: nothing changes when the parent's
\* first element child has the outline's class or when v has no parent
\* element (the div is created and dropped), else the div is prepended
selectVideoDom(k, v) ==
    LET p == parentOf(k, v)
    IN  IF firstElementChild(k, p) = Outline \/ p = Absent THEN k
        ELSE [k EXCEPT ![p] = <<Outline>> \o @]

\* the DOM unselectVideo leaves for video v: the parent's first element child
\* is removed when it has the outline's class
unselectVideoDom(k, v) ==
    LET p == parentOf(k, v)
    IN  IF firstElementChild(k, p) # Outline THEN k
        ELSE [k EXCEPT ![p] = RemoveFirst(@, Outline)]

\* selectVideo(index)
selectVideo(index) ==
    LET v == videoAt(videoElements, index)
        p == parentOf(kids, v)
    IN  IF v = Absent
        THEN \* video.parentElement of undefined: TypeError
             fault' = TRUE /\ UNCHANGED <<kids, timers, unrun>>
        ELSE IF selectVideoDom(kids, v) = kids
        THEN UNCHANGED <<kids, timers, unrun, fault>>
        ELSE /\ kids' = selectVideoDom(kids, v)
             /\ ObserverCallback(kids', p, Outline, TRUE)
             /\ UNCHANGED fault

\* unselectVideo(index)
unselectVideo(index) ==
    LET v == videoAt(videoElements, index)
        p == parentOf(kids, v)
    IN  IF v = Absent
        THEN fault' = TRUE /\ UNCHANGED <<kids, timers, unrun>>
        ELSE IF unselectVideoDom(kids, v) = kids
        THEN UNCHANGED <<kids, timers, unrun, fault>>
        ELSE /\ kids' = unselectVideoDom(kids, v)
             /\ ObserverCallback(kids', p, Outline, FALSE)
             /\ UNCHANGED fault

\* <li @mouseenter="selectVideo(index - 1)">, for a rendered entry
MouseEnter(i) ==
    /\ lastKey = NoKey
    /\ hovered = -1
    /\ i \in 0..(Len(videoElements) - 1)
    /\ hovered' = i
    /\ selectVideo(i)
    /\ NoPassMade
    /\ UNCHANGED <<src, loaded, observing, videoElements, videoSelectedIndex,
                   winCapture, lastKey>>

\* <li @mouseleave="unselectVideo(index - 1)">, for the entry under the mouse
MouseLeave ==
    /\ lastKey = NoKey
    /\ hovered # -1
    /\ hovered' = -1
    /\ unselectVideo(hovered)
    /\ NoPassMade
    /\ UNCHANGED <<src, loaded, observing, videoElements, videoSelectedIndex,
                   winCapture, lastKey>>

-----------------------------------------------------------------------------
(* The key router. *)

plugins ==
    <<"PausePlugin", "SpeedPlugin", "ProgressPlugin", "VolumePlugin",
      "ScreenPlugin">>

fnMap == [keyup |-> "onKeyUp", keydown |-> "onKeyDown"]

TagInput == <<"I","N","P","U","T">>
TagTextarea == <<"T","E","X","T","A","R","E","A">>
TagDiv == <<"D","I","V">>
\* event.target.tagName; NoTag (undefined) when the target has none (the document)
NoTag == <<>>
TagNames == {TagInput, TagTextarea, TagDiv, NoTag}

KeyEvents ==
    [type : {"keyup", "keydown"}, tagName : TagNames,
     metaKey : BOOLEAN, altKey : BOOLEAN, ctrlKey : BOOLEAN]

\* what each plugin's handler returns for the event when it is called
Returns == [1..Len(plugins) -> BOOLEAN]

\* event.target.tagName.toLowerCase(), for each tag name
LowerTag == [t \in TagNames |-> toLowerCase(t)]

\* a filter that compares the tag name without lower-casing it
shouldMapKey_CaseSensitive(event) ==
    IF /\ event.tagName # NoTag
       /\ event.tagName \in
              {<<"i","n","p","u","t">>, <<"t","e","x","t","a","r","e","a">>}
    THEN FALSE
    ELSE IF event.metaKey \/ event.altKey \/ event.ctrlKey THEN FALSE
    ELSE IF video = Absent THEN FALSE
    ELSE TRUE

shouldMapKey(event) ==
    IF /\ event.tagName # NoTag
       /\ LowerTag[event.tagName] \in
              {<<"i","n","p","u","t">>, <<"t","e","x","t","a","r","e","a">>}
    THEN FALSE
    ELSE IF event.metaKey \/ event.altKey \/ event.ctrlKey THEN FALSE
    ELSE IF video = Absent THEN FALSE
    ELSE TRUE

NoCalls == [i \in 1..Len(plugins) |-> 0]

RECURSIVE forEachPlugin_Overwrite(_, _, _, _)
\* a loop that assigns each plugin's result to ret instead of or-ing it in
forEachPlugin_Overwrite(i, ret, calls, r) ==
    IF i > Len(plugins) THEN [ret |-> ret, calls |-> calls]
    ELSE forEachPlugin_Overwrite(i + 1, r[i], [calls EXCEPT ![i] = @ + 1], r)

RECURSIVE forEachPlugin(_, _, _, _)
\* plugins.forEach(plugin => { ret ||= plugin[fnMap[type]]({...}) }) from the
\* i-th plugin on: the right-hand side of ||= is evaluated only while ret is false
forEachPlugin(i, ret, calls, r) ==
    IF i > Len(plugins) THEN [ret |-> ret, calls |-> calls]
    ELSE IF ret THEN forEachPlugin(i + 1, ret, calls, r)
    ELSE forEachPlugin(i + 1, r[i], [calls EXCEPT ![i] = @ + 1], r)

\* the listener listenKeyEvent(type) installs, run on event
keyListener(event, r) ==
    IF ~shouldMapKey(event)
    THEN [calls |-> NoCalls, video |-> Absent, stopped |-> FALSE,
          prevented |-> FALSE]
    ELSE LET out == forEachPlugin(1, FALSE, NoCalls, r)
         IN  [calls |-> out.calls, video |-> video, stopped |-> out.ret,
              prevented |-> out.ret]

RECURSIVE DispatchCapture(_, _, _, _)
\* the window's capture listeners from the i-th on, in registration order;
\* stopImmediatePropagation keeps the event from every listener after the
\* one that called it
DispatchCapture(i, event, r, st) ==
    IF i > Len(winCapture) \/ st.stopped THEN st
    ELSE IF winCapture[i] = "router"
    THEN DispatchCapture(i + 1, event, r,
             keyListener(event, r) @@ [received |-> st.received])
    ELSE DispatchCapture(i + 1, event, r,
             [st EXCEPT !.received = @ \cup {i}])

\* a keyup or keydown event is dispatched to the window
KeyEvent(event, r) ==
    LET st == DispatchCapture(1, event, r,
                  [calls |-> NoCalls, video |-> Absent, stopped |-> FALSE,
                   prevented |-> FALSE, received |-> {}])
    IN  /\ lastKey = NoKey
        /\ lastKey' = [type |-> event.type, event |-> event, returns |-> r,
                       active |-> video, handler |-> fnMap[event.type],
                       listeners |-> winCapture,
                       calls |-> st.calls, video |-> st.video,
                       stopped |-> st.stopped, prevented |-> st.prevented,
                       received |-> st.received,
                       \* listeners past the window's capture phase
                       rest |-> ~st.stopped]
        /\ NoPassMade
        /\ UNCHANGED <<kids, src, loaded, observing, timers, unrun,
                   videoElements,
                       videoSelectedIndex, hovered, winCapture, fault>>

\* the dispatch of the key event is over
KeyDone ==
    /\ lastKey # NoKey
    /\ lastKey' = NoKey
    /\ NoPassMade
    /\ UNCHANGED <<kids, src, loaded, observing, timers, unrun,
                   videoElements,
                   videoSelectedIndex, hovered, winCapture, fault>>

\* the capture listeners the host page registers on the window, each once
HostListeners == {"host"}

\* the host page: window.addEventListener(type, h, true)
AddHostListener(h) ==
    /\ lastKey = NoKey
    /\ h \notin Range(winCapture)
    /\ winCapture' = Append(winCapture, h)
    /\ NoPassMade
    /\ UNCHANGED <<kids, src, loaded, observing, timers, unrun,
                   videoElements,
                   videoSelectedIndex, hovered, fault, lastKey>>

-----------------------------------------------------------------------------
\* refs whose selection index starts at 1
InitApp_IndexOne ==
    /\ loaded = FALSE
    /\ observing = FALSE
    /\ timers = [d \in Delays |-> 0]
    /\ videoElements = <<>>
    /\ videoSelectedIndex = 1
    /\ hovered = -1
    /\ winCapture = <<>>
    /\ fault = FALSE
    /\ lastPass = NoPass
    /\ lastKey = NoKey
    /\ lastEvent = "other"
    /\ repeated = FALSE
    /\ everListed = FALSE
    /\ unrun = 0

InitApp ==
    /\ loaded = FALSE
    /\ observing = FALSE
    /\ timers = [d \in Delays |-> 0]
    /\ videoElements = <<>>
    /\ videoSelectedIndex = 0
    /\ hovered = -1
    /\ winCapture = <<>>
    /\ fault = FALSE
    /\ lastPass = NoPass
    /\ lastKey = NoKey
    /\ lastEvent = "other"
    /\ repeated = FALSE
    /\ everListed = FALSE
    /\ unrun = 0

Init ==
    /\ kids = [c \in Containers |-> <<>>]
    /\ src = [v \in Videos |-> "m.mp4"]
    /\ InitApp

\* where the host page of Spec puts its nodes, and the src it changes
Placements ==
    {<<"v1", Body>>, <<"v1", "plain">>, <<"v2", Body>>, <<"v2", "player">>,
     <<"plain", Body>>, <<"player", Body>>, <<"fa", "plain">>}
SrcChanges == {"v1"}

DomChange ==
    \/ \E p \in Placements : Insert(p[1], p[2])
    \/ \E n \in Movable : Detach(n)
    \/ \E v \in SrcChanges, s \in Srcs : SetSrc(v, s)

Discovery ==
    \/ \E d \in Delays : TimerFires(d)
    \/ HashChange

Picker ==
    \/ \E i \in 0..(Cardinality(Videos) - 1) : PickerSelect(i)
    \/ \E i \in 0..(Cardinality(Videos) - 1) : MouseEnter(i)
    \/ MouseLeave

Next ==
    \/ Load
    \/ DomChange
    \/ Discovery
    \/ Picker

Spec == Init /\ [][Next]_vars

\* the host page of SpecRouter: one video that comes and goes
RouterPlacements == {<<"v1", Body>>}

RouterDom ==
    \/ \E p \in RouterPlacements : Insert(p[1], p[2])
    \/ \E p \in RouterPlacements : Detach(p[1])

Keys == \E event \in KeyEvents, r \in Returns : KeyEvent(event, r)

NextRouter ==
    \/ Load
    \/ RouterDom
    \/ Discovery
    \/ \E h \in HostListeners : AddHostListener(h)
    \/ Keys
    \/ KeyDone

SpecRouter == Init /\ [][NextRouter]_vars

\* the host page of SpecWatch: elements and a text node come and go under the
\* observed body, before and after the load event, and the page may unload
WatchPlacements ==
    {<<"txt", Body>>, <<"v1", Body>>, <<"v1", "plain">>, <<"v2", "player">>,
     <<"plain", Body>>, <<"player", Body>>, <<"fa", "plain">>, <<"fa", Body>>}

WatchDom ==
    \/ \E p \in WatchPlacements : Insert(p[1], p[2])
    \/ \E p \in WatchPlacements : Detach(p[1])

NextWatch ==
    \/ Load
    \/ BeforeUnload
    \/ WatchDom
    \/ Discovery

SpecWatch == Init /\ [][NextWatch]_vars

\* the browser runs every timer whose delay has passed
TimersRun == \A d \in Delays : WF_vars(TimerFires(d))

\* the host page of SpecTimers: a video and a player div come and go
TimerPlacements == {<<"v1", Body>>, <<"player", Body>>}

TimerDom ==
    \/ \E p \in TimerPlacements : Insert(p[1], p[2])
    \/ \E p \in TimerPlacements : Detach(p[1])

NextTimers ==
    \/ Load
    \/ BeforeUnload
    \/ TimerDom
    \/ Discovery

SpecTimers == Init /\ [][NextTimers]_vars /\ TimersRun

\* the host page of SpecDiscover: a frame tree built before the load event
DiscoverPlacements ==
    {<<v, c>> : v \in Videos, c \in {Body, "fa", "fx"}}
      \cup {<<"v1", "plain">>, <<"plain", Body>>, <<"fa", "plain">>,
            <<"fa", Body>>, <<"fa", "fx">>, <<"fx", Body>>, <<"fx", "fa">>}

BuildPage ==
    /\ ~loaded
    /\ \/ \E p \in DiscoverPlacements : Insert(p[1], p[2])
       \/ \E p \in DiscoverPlacements : Detach(p[1])
       \/ \E v \in Videos, s \in Srcs : SetSrc(v, s)

NextDiscover ==
    \/ BuildPage
    \/ Load
    \/ Discovery

SpecDiscover == Init /\ [][NextDiscover]_vars

-----------------------------------------------------------------------------
(* The key router's properties, under SpecRouter. *)

\* the router's listener is registered on the window
RouterSaw(k) == "router" \in Range(k.listeners)
\* the event's target is an input or a textarea element
OnTextField(k) == k.event.tagName \in {TagInput, TagTextarea}
\* meta, alt or control is held
WithModifier(k) == k.event.metaKey \/ k.event.altKey \/ k.event.ctrlKey
\* the event passes the eligibility filter
Eligible(k) == ~OnTextField(k) /\ ~WithModifier(k) /\ k.active # Absent

\* C1: for every key event that passes the eligibility filter, the handler
\* for its direction of each of the five plugins is invoked exactly once,
\* whatever the other plugins return
C1_RouterTotality ==
    (lastKey # NoKey /\ RouterSaw(lastKey) /\ Eligible(lastKey)) =>
        /\ lastKey.handler =
             (IF lastKey.type = "keydown" THEN "onKeyDown" ELSE "onKeyUp")
        /\ \A i \in 1..5 : lastKey.calls[i] = 1

\* C2: stopImmediatePropagation and preventDefault are both called if and
\* only if the event passed the filter and a plugin's handler returned true
\* for it; otherwise neither is called
C2_SuppressionIff ==
    lastKey # NoKey =>
        /\ lastKey.stopped = lastKey.prevented
        /\ lastKey.stopped <=>
             /\ RouterSaw(lastKey)
             /\ Eligible(lastKey)
             /\ \E i \in 1..5 : lastKey.calls[i] > 0 /\ lastKey.returns[i]

\* an eligible event that a plugin other than the first claimed was suppressed
C2_Witness ==
    /\ lastKey # NoKey
    /\ lastKey.stopped /\ lastKey.prevented
    /\ ~lastKey.returns[1] /\ lastKey.returns[3] /\ ~lastKey.returns[5]

\* C3: an event on an input or textarea, or with meta, alt or control held,
\* or with no active video, reaches no plugin handler and is not suppressed
C3_FilteredNeverForwarded ==
    (lastKey # NoKey
       /\ (OnTextField(lastKey) \/ WithModifier(lastKey)
             \/ lastKey.active = Absent)) =>
        /\ \A i \in 1..5 : lastKey.calls[i] = 0
        /\ ~lastKey.stopped /\ ~lastKey.prevented

\* with a video active and the router listening, a key typed into a textarea
\* that a plugin would have claimed
C3_Witness ==
    /\ lastKey # NoKey
    /\ RouterSaw(lastKey)
    /\ lastKey.active # Absent
    /\ lastKey.event.tagName = TagTextarea
    /\ ~WithModifier(lastKey)
    /\ lastKey.returns[1]
    /\ \A i \in 1..5 : lastKey.calls[i] = 0

\* C4: when a plugin claims a key event, no listener of the host page
\* receives it, capture listeners registered on the window before the
\* router's included
C4_HostNeverReceives ==
    (lastKey # NoKey /\ lastKey.stopped) =>
        lastKey.received = {} /\ ~lastKey.rest

-----------------------------------------------------------------------------
(* The selection state's properties, under Spec. *)

\* C5: if VideoList is not empty, SelectionIndex is an index of it
C5_IndexInRange ==
    Len(videoElements) > 0 =>
        videoSelectedIndex \in 0..(Len(videoElements) - 1)

\* a pass has just shortened the list below the index that was selected
C5_Witness ==
    /\ lastPass.prevLen = 2 /\ lastPass.prevIndex = 1
    /\ Len(videoElements) = 1
    /\ videoSelectedIndex = 0

\* C6 as stated: after a pass from an empty list to a non-empty one the
\* index is 0, whatever it was
C6_ResetOnFirstNonEmpty ==
    (lastPass.prevLen = 0 /\ lastPass.newLen > 0) => lastPass.newIndex = 0

\* C6 amended: after a pass from an empty list to a non-empty one the index
\* is 0 if its old value is out of range of the new list, and is its old
\* value otherwise
C6_ResetWhenOutOfRange ==
    (lastPass.prevLen = 0 /\ lastPass.newLen > 0) =>
        lastPass.newIndex =
            (IF lastPass.prevIndex < lastPass.newLen
             THEN lastPass.prevIndex ELSE 0)

\* a pass from an empty list to one entry reset the index from 1 to 0
C6_Witness ==
    /\ lastPass.prevLen = 0 /\ lastPass.newLen = 1
    /\ lastPass.prevIndex = 1 /\ lastPass.newIndex = 0

\* C7 as stated: a pass that is not from an empty list to a non-empty one
\* leaves the index unchanged, also when it is out of range afterwards
C7_OtherwiseUnchanged ==
    (lastPass # NoPass /\ ~(lastPass.prevLen = 0 /\ lastPass.newLen > 0)) =>
        lastPass.newIndex = lastPass.prevIndex

\* C7 amended: such a pass leaves the index unchanged unless the new list is
\* not empty and the index is out of its range, and then sets it to 0
C7_UnchangedUnlessOutOfRange ==
    (lastPass # NoPass /\ ~(lastPass.prevLen = 0 /\ lastPass.newLen > 0)) =>
        lastPass.newIndex =
            (IF lastPass.newLen > 0 /\ lastPass.prevIndex >= lastPass.newLen
             THEN 0 ELSE lastPass.prevIndex)

\* a pass from two entries to one reset the index from 1 to 0
C7_Witness ==
    /\ lastPass.prevLen = 2 /\ lastPass.newLen = 1
    /\ lastPass.prevIndex = 1 /\ lastPass.newIndex = 0

\* C8: the active video is the entry of VideoList at SelectionIndex, with
\* SelectionIndex in range, or it is absent; no picker hover handler has
\* read an entry outside the list, and the router forwards no event without
\* an entry of the list as the active video
C8_ActiveVideoSafe ==
    /\ \/ video = Absent
       \/ /\ videoSelectedIndex \in 0..(Len(videoElements) - 1)
          /\ video = videoElements[videoSelectedIndex + 1]
    /\ ~fault
    /\ \A e \in KeyEvents : shouldMapKey(e) => video \in Range(videoElements)

\* a pass has just emptied the list under a selected index of 1 while a
\* picker entry was hovered
C8_Witness ==
    /\ lastPass.prevLen = 2 /\ lastPass.newLen = 0
    /\ videoSelectedIndex = 1
    /\ video = Absent
    /\ \E c \in Containers : Outline \in Range(kids[c])

\* C9: whenever a video of VideoList has been removed from the DOM, directly
\* or with an ancestor, an immediate re-discovery is scheduled
C9_RemovalSchedulesRediscovery ==
    \A i \in 1..Len(videoElements) :
        ~Connected(kids, videoElements[i]) => timers[0] > 0

-----------------------------------------------------------------------------
(* Discovery's properties, under SpecDiscover. *)

RECURSIVE DocOf(_, _)
\* the document that holds node n: the body of the top document or of a frame
DocOf(k, n) ==
    LET p == parentOf(k, n)
    IN  IF p = Absent \/ p = Body \/ p \in Frames THEN p ELSE DocOf(k, p)

RECURSIVE DocChain(_, _)
\* the documents from the top one down to d
DocChain(k, d) ==
    IF d = Body THEN <<Body>> ELSE DocChain(k, DocOf(k, d)) \o <<d>>

PosIn(seq, x) == CHOOSE i \in 1..Len(seq) : seq[i] = x

\* a connected video with a non-empty src in a document that can be read
Qualifies(v) ==
    /\ Connected(kids, v)
    /\ src[v] # ""
    /\ DocOf(kids, v) # "fx"

\* video a comes before video b: in document order within one document, a
\* document before the frames nested in it, sibling frames in frame order
ComesBefore(a, b) ==
    LET ca == DocChain(kids, DocOf(kids, a))
        cb == DocChain(kids, DocOf(kids, b))
        common == {i \in 1..Len(ca) : i <= Len(cb) /\ SubSeq(ca, 1, i) = SubSeq(cb, 1, i)}
        n == Cardinality(common)
    IN  IF ca = cb
        THEN PosIn(ElementsUnder(kids, kids[ca[n]]), a)
               < PosIn(ElementsUnder(kids, kids[ca[n]]), b)
        ELSE IF n = Len(ca) THEN TRUE
        ELSE IF n = Len(cb) THEN FALSE
        ELSE PosIn(framesOf(kids, ca[n]), ca[n + 1])
               < PosIn(framesOf(kids, ca[n]), cb[n + 1])

\* C10: discover(root) returns, and what it returns is exactly the qualifying
\* videos, none twice, ordered depth-first: a document's videos in document
\* order, then each child frame's result in frame order
C10_DiscoverExactOrdered ==
    LET r == getAllValidVideoElements(kids, src, Body)
    IN  /\ ~getAllValidVideoElementsThrows(kids, Body)
        /\ Range(r) = {v \in Videos : Qualifies(v)}
        /\ Len(r) = Cardinality(Range(r))
        /\ \A i, j \in 1..Len(r) : i < j => ComesBefore(r[i], r[j])

\* C11: discover never raises: no discovery pass ends with an uncaught
\* exception, whatever cross-origin frames the page holds; a cross-origin
\* frame's own document contributes no entry, and every video with a src in
\* a readable document of the frame tree is in the list the pass stores
C11_DiscoverNeverRaises ==
    /\ ~fault
    /\ lastPass # NoPass =>
         /\ \A v \in Range(videoElements) : DocOf(kids, v) # "fx"
         /\ \A v \in Videos :
               (Connected(kids, v) /\ src[v] # "" /\ DocOf(kids, v) # "fx")
                  => v \in Range(videoElements)

-----------------------------------------------------------------------------
(* The discovery pass's properties, under Spec. *)

\* C12: right after a discovery pass, VideoList is exactly what discover
\* returns for the document as it is (replaced wholesale), so no element that
\* was removed from the document before the pass is in VideoList, is the
\* active video, or is the video of the hovered picker entry that the outline
\* operations work on
C12_NoStaleAfterPass ==
    lastPass # NoPass =>
        /\ videoElements = getAllValidVideoElements(kids, src, Body)
        /\ \A v \in Range(videoElements) : Connected(kids, v)
        /\ video # Absent => Connected(kids, video)
        /\ hovered # -1 => Connected(kids, videoAt(videoElements, hovered))

\* a pass that found one video where two were listed, the other one having
\* been removed from the document
C12_Witness ==
    /\ lastPass.prevLen = 2
    /\ lastPass.newLen = 1
    /\ \E v \in {"v1", "v2"} : ~Connected(kids, v)


\* the top document holds exactly one video, it has a src, and no iframe
OneSourcedVideoNoFrames ==
    /\ Cardinality({v \in Videos : InTopDocument(kids, v)}) = 1
    /\ \A v \in Videos : InTopDocument(kids, v) => src[v] # ""
    /\ \A f \in Frames : ~Connected(kids, f)

\* C13: until a discovery pass has yielded a non-empty VideoList the list is
\* empty and SelectionIndex is still 0 (nothing can change it), and the first
\* pass that yields a non-empty list leaves SelectionIndex 0; for a page with
\* one sourced video and no frames that pass leaves a list of length 1
C13_FirstNonEmptyPassIndexZero ==
    /\ [](~everListed => (videoElements = <<>> /\ videoSelectedIndex = 0))
    /\ [][(~everListed /\ everListed') =>
            /\ videoElements' # <<>>
            /\ videoSelectedIndex' = 0
            /\ OneSourcedVideoNoFrames => Len(videoElements') = 1]_vars

\* the state a pass leaves that found one video on a page with one sourced
\* video and no frames, the list having been empty before
C13_Witness ==
    /\ everListed
    /\ lastPass = [prevLen |-> 0, prevIndex |-> 0, newLen |-> 1, newIndex |-> 0]
    /\ OneSourcedVideoNoFrames
    /\ videoSelectedIndex = 0


\* C14: a discovery pass run right after a discovery pass, the document not
\* having changed in between, leaves VideoList (content and order) and
\* SelectionIndex as the previous pass left them
C14_RedundantPassChangesNothing ==
    [][(lastPass # NoPass /\ lastPass' # NoPass) =>
          /\ videoElements' = videoElements
          /\ videoSelectedIndex' = videoSelectedIndex]_vars

\* two passes in a row over a page with two listed videos, the second one
\* selected
C14_Witness ==
    /\ repeated
    /\ lastPass = [prevLen |-> 2, prevIndex |-> 1, newLen |-> 2, newIndex |-> 1]
    /\ videoElements = getAllValidVideoElements(kids, src, Body)


-----------------------------------------------------------------------------
(* The mutation watcher's properties, under SpecWatch. *)

\* the node may hold a video, as the claim words it: it is a video element,
\* or its class name contains 'video' in any case, or it contains an iframe
PlausibleVideoNode(n) ==
    \/ n \in Videos
    \/ n \in {"player", Outline}
    \/ n \in Wrappers /\ \E f \in Frames : f \in Range(kids'[n])

\* C15: for each observed mutation (the observer is connected and the parent
\* is in the top document), an added node that satisfies the predicate
\* schedules exactly one re-discovery with delay 1000, a removed one exactly
\* one with delay 0, and a node that does not satisfy it (a text node
\* included) schedules none
C15_MutationScheduling ==
    [][\A c \in {Body} \cup Wrappers, n \in Nodes \cup Texts :
         LET observed == observing /\ InTopDocument(kids, c)
             added == \/ kids' = [kids EXCEPT ![c] = Append(@, n)]
                      \/ kids' = [kids EXCEPT ![c] = <<n>> \o @]
             removed == /\ n \in Range(kids[c])
                        /\ kids' = [kids EXCEPT ![c] = Remove(@, n)]
         IN  /\ (observed /\ added) =>
                  timers' = IF PlausibleVideoNode(n)
                            THEN [timers EXCEPT ![1000] = @ + 1]
                            ELSE timers
             /\ (observed /\ removed) =>
                  timers' = IF PlausibleVideoNode(n)
                            THEN [timers EXCEPT ![0] = @ + 1]
                            ELSE timers]_vars

\* the observer is connected, a text node sits in the body, a listed video is
\* no longer in the document, and one re-discovery of each delay is pending
C15_Witness ==
    /\ observing
    /\ "txt" \in Range(kids[Body])
    /\ \E v \in Range(videoElements) : ~Connected(kids, v)
    /\ timers = [d \in Delays |-> 1]


\* the re-discoveries pending, of both delays
Pending == timers[0] + timers[SettleDelay]

\* C16: every setTimeout(onVideoUpdate) and every hash change leads to
\* exactly one discovery pass: what was scheduled and has not run is still
\* pending (unrun counts schedulings and hash changes minus passes), a
\* pending timer goes away only by running, one at a time, whatever else
\* happens (mutations, other timers, hash changes, the observer's
\* disconnection), and a full set of pending timers eventually runs one
C16_ScheduledRunOnce ==
    /\ [](unrun = Pending)
    /\ [][\A d \in Delays :
            timers'[d] < timers[d] =>
               /\ timers'[d] = timers[d] - 1
               /\ unrun' = unrun - 1
               /\ lastPass' # NoPass]_vars
    /\ \A d \in Delays : (timers[d] = MaxTimers) ~> (timers[d] < MaxTimers)

\* the observer has been disconnected with a re-discovery of each delay
\* pending, and a hash change has just run its own pass
C16_Witness ==
    /\ loaded /\ ~observing
    /\ timers = [d \in Delays |-> 1]
    /\ lastEvent = "hashchange"
    /\ unrun = 2


-----------------------------------------------------------------------------
(* Startup and hash changes. *)

\* C17: the load handler schedules exactly one re-discovery (delay 0, no
\* mutation needed), and the handler of a hash change runs exactly one pass
\* itself: when it returns VideoList is the result of discovery on the
\* document and SelectionIndex is settled, nothing further is scheduled, so
\* every key event dispatched later is routed with the updated active video
C17_StartupAndHashChange ==
    /\ [][lastEvent' = "load" =>
            /\ timers' = [timers EXCEPT ![0] = @ + 1]
            /\ unrun' = unrun + 1
            /\ kids' = kids]_vars
    /\ [][lastEvent' = "hashchange" =>
            /\ lastPass' # NoPass
            /\ videoElements' = getAllValidVideoElements(kids, src, Body)
            /\ videoAt(videoElements', videoSelectedIndex') = Absent
                 => videoElements' = <<>>
            /\ timers' = timers
            /\ unrun' = unrun]_vars
    /\ [](lastKey # NoKey => lastKey.active = video)

-----------------------------------------------------------------------------
(* The picker's outline, under Spec. *)

\* how many outline divs the child list s holds
Outlines(s) == Cardinality({i \in 1..Len(s) : s[i] = Outline})

\* the parent of the video of picker entry i starts with an outline div
StartsWithOutline(i) ==
    LET v == videoAt(videoElements, i)
    IN  firstElementChild(kids, parentOf(kids, v)) = Outline

\* selectVideo(i) on a parent that starts with an outline inserts nothing,
\* selectVideo(i) twice is selectVideo(i) once and leaves one outline, and
\* unselectVideo(i) without an outline removes nothing
OutlineIdempotent(i) ==
    LET v == videoAt(videoElements, i)
        p == parentOf(kids, v)
        once == selectVideoDom(kids, v)
    IN  /\ StartsWithOutline(i) => once = kids
        /\ selectVideoDom(once, v) = once
        /\ p # Absent => Outlines(once[p]) = 1
        /\ ~StartsWithOutline(i) => unselectVideoDom(kids, v) = kids

\* selectVideo(i) followed by unselectVideo(i) leaves the DOM as it was
SelectThenUnselectRestores(i) ==
    LET v == videoAt(videoElements, i)
    IN  unselectVideoDom(selectVideoDom(kids, v), v) = kids

\* C18 as claimed: for every picker entry, the outline operations are
\* idempotent and selectVideo(i) followed by unselectVideo(i) restores the
\* parent's children to what they were
C18_OutlineRoundTrip ==
    \A i \in 0..(Len(videoElements) - 1) :
        OutlineIdempotent(i) /\ SelectThenUnselectRestores(i)

\* C18 amended: for every picker entry, the outline operations are
\* idempotent, and selectVideo(i) followed by unselectVideo(i) restores the
\* parent's children when the parent did not start with an outline; when it
\* did, the pair removes that outline
C18_OutlineRoundTripWithoutOutline ==
    \A i \in 0..(Len(videoElements) - 1) :
        /\ OutlineIdempotent(i)
        /\ ~StartsWithOutline(i) => SelectThenUnselectRestores(i)
        /\ StartsWithOutline(i) =>
             LET v == videoAt(videoElements, i)
             IN  unselectVideoDom(selectVideoDom(kids, v), v)
                   = unselectVideoDom(kids, v)

\* two entries: the hovered one's parent starts with the outline selectVideo
\* put there, the other one's parent holds none
C18_Witness ==
    /\ Len(videoElements) = 2
    /\ hovered = 0
    /\ StartsWithOutline(0)
    /\ ~StartsWithOutline(1)
    /\ parentOf(kids, videoAt(videoElements, 1)) # Absent


-----------------------------------------------------------------------------
(* Currency of the list and the hovered outline, under Spec. *)

\* C19: once the controller has started and every scheduled re-discovery has
\* run (none is pending, so nothing further runs if the DOM changes stop),
\* VideoList is what discover returns for the current document
C19_EventualCurrency ==
    (loaded /\ Pending = 0) =>
        videoElements = getAllValidVideoElements(kids, src, Body)


\* C20: whenever no picker entry is hovered, no outline div is in the
\* document: every outline selectVideo inserted on hover-enter is gone after
\* the hover-leave, whatever discovery passes ran in between
C20_NoOrphanedOutline ==
    hovered = -1 => \A c \in Containers : Outline \notin Range(kids[c])

=============================================================================
